---- MODULE Spec2Model ----
(***************************************************************************)
(* Model of the handle-indexed directed multigraph (src/src/lib.rs) and of *)
(* the dominance algorithms that run on it (src/src/dominator.rs).         *)
(***************************************************************************)
EXTENDS Integers, Sequences, FiniteSets, TLC

\* Bounds of the model: number of vertex / edge handles ever allocated.
MaxVertices == 3
MaxEdges == 4

\* Bound of the step-by-step runs of the dominance loops: they are started on
\* graphs of at most this many edges.
MaxLoopEdges == 3

\* The single vertex / edge label value; labels are opaque to every operation.
Label == "l"

\* Option::None for an Option<Vertex> / Option<usize> value.
NoVertex == -1

VARIABLES vertex_labels, edge_labels, out_edges, in_edges, edges,
          next_edge, next_vertex, call, frame

vars == <<vertex_labels, edge_labels, out_edges, in_edges, edges,
          next_edge, next_vertex, call, frame>>

-----------------------------------------------------------------------------
(* Helpers on maps and sequences *)

\* HashMap::remove: the map without key k.
MapRemove(m, k) == [x \in DOMAIN m \ {k} |-> m[x]]

\* HashMap::insert: the map with key k bound to v.
MapInsert(m, k, v) == [x \in DOMAIN m \cup {k} |-> IF x = k THEN v ELSE m[x]]

Range(s) == {s[i] : i \in DOMAIN s}

\* Iterator::position: index of the first element equal to e, 0 when absent.
Position(s, e) ==
    IF \E i \in DOMAIN s : s[i] = e
    THEN CHOOSE i \in DOMAIN s : s[i] = e /\ \A j \in 1..(i - 1) : s[j] # e
    ELSE 0

\* Vec::swap_remove: the element at i is replaced by the last one.
SwapRemove(s, i) ==
    LET n == Len(s)
        front == SubSeq(s, 1, n - 1)
    IN IF i = n THEN front ELSE [front EXCEPT ![i] = s[n]]

\* slice::sort + Vec::dedup of the elements of a set: the ascending sequence.
RECURSIVE SortedSeq(_)
SortedSeq(S) ==
    IF S = {} THEN <<>>
    ELSE LET m == CHOOSE x \in S : \A y \in S : x <= y
         IN <<m>> \o SortedSeq(S \ {m})

-----------------------------------------------------------------------------
(* The store: struct Graph *)

\* The fields of the Graph struct as one value.
Self == [vertex_labels |-> vertex_labels, edge_labels |-> edge_labels,
         out_edges |-> out_edges, in_edges |-> in_edges, edges |-> edges,
         next_edge |-> next_edge, next_vertex |-> next_vertex]

\* The record of the last call made by the client and what it returned.
\* ok: the call returned Some / returned normally; ret: the value;
\* start, idom: the arguments of a dominance call.
Called(fn, start, ok, ret, idom) ==
    [fn |-> fn, start |-> start, ok |-> ok, ret |-> ret, idom |-> idom]

NoCall == Called("new", NoVertex, TRUE, <<>>, <<>>)

\* The locals of the dominance call that is running, with its position pc;
\* Idle when no dominance call is running.
Idle == [pc |-> "idle"]

Init ==
    /\ vertex_labels = <<>>
    /\ edge_labels = <<>>
    /\ out_edges = <<>>
    /\ in_edges = <<>>
    /\ edges = <<>>
    /\ next_edge = 0
    /\ next_vertex = 0
    /\ call = NoCall
    /\ frame = Idle

\* Graph::vertices: the keys of the vertex-label map.
vertices == DOMAIN vertex_labels

source(e) == edges[e][1]
target(e) == edges[e][2]

in_degree(v) == IF v \in DOMAIN in_edges THEN Len(in_edges[v]) ELSE 0
out_degree(v) == IF v \in DOMAIN out_edges THEN Len(out_edges[v]) ELSE 0

\* Mutant of rm_adj: the last element of the list is dropped, whatever it is.
rm_adj_pop(m, v, e) == [m EXCEPT ![v] = SubSeq(@, 1, Len(@) - 1)]

\* rm_adj closure of remove_edge: FALSE when the list or the handle is
\* missing, otherwise the list after swap_remove.
rm_adj_ok(m, v, e) == v \in DOMAIN m /\ Position(m[v], e) # 0
rm_adj(m, v, e) == [m EXCEPT ![v] = SwapRemove(@, Position(@, e))]

\* Mutant of remove_edge: the handle is scrubbed from the out-edge list only.
remove_edge_out_only(self, e) ==
    IF e \notin DOMAIN self.edge_labels
    THEN [self |-> self, ok |-> FALSE]
    ELSE LET from == self.edges[e][1]
             s1 == [self EXCEPT !.edge_labels = MapRemove(@, e),
                                !.edges = MapRemove(@, e)]
         IN IF ~rm_adj_ok(s1.out_edges, from, e)
            THEN [self |-> s1, ok |-> FALSE]
            ELSE [self |-> [s1 EXCEPT !.out_edges = rm_adj(@, from, e)], ok |-> TRUE]

\* remove_edge on a store value: the store afterwards and the returned option.
remove_edge(self, e) ==
    IF e \notin DOMAIN self.edge_labels
    THEN [self |-> self, ok |-> FALSE]
    ELSE LET from == self.edges[e][1]
             to == self.edges[e][2]
             s1 == [self EXCEPT !.edge_labels = MapRemove(@, e),
                                !.edges = MapRemove(@, e)]
         IN IF ~rm_adj_ok(s1.out_edges, from, e)
            THEN [self |-> s1, ok |-> FALSE]
            ELSE LET s2 == [s1 EXCEPT !.out_edges = rm_adj(@, from, e)]
                 IN IF ~rm_adj_ok(s2.in_edges, to, e)
                    THEN [self |-> s2, ok |-> FALSE]
                    ELSE [self |-> [s2 EXCEPT !.in_edges = rm_adj(@, to, e)],
                          ok |-> TRUE]

\* The two "for e in todel" loops of remove_vertex: remove the edges of the
\* list one by one, stopping at the first remove_edge that returns None.
RECURSIVE remove_all(_, _, _)
remove_all(self, todel, i) ==
    IF i > Len(todel) THEN [self |-> self, ok |-> TRUE]
    ELSE LET r == remove_edge(self, todel[i])
         IN IF ~r.ok THEN r ELSE remove_all(r.self, todel, i + 1)

\* remove_vertex on a store value.
remove_vertex(self, v) ==
    IF v \notin DOMAIN self.vertex_labels
    THEN [self |-> self, ok |-> FALSE]
    ELSE LET s0 == [self EXCEPT !.vertex_labels = MapRemove(@, v)]
             todel1 == IF v \in DOMAIN s0.in_edges THEN s0.in_edges[v] ELSE <<>>
             todel2 == IF v \in DOMAIN s0.out_edges THEN s0.out_edges[v] ELSE <<>>
             r1 == remove_all(s0, todel1, 1)
         IN IF ~r1.ok THEN r1
            ELSE LET r2 == remove_all(r1.self, todel2, 1)
                 IN IF ~r2.ok THEN r2
                    ELSE IF v \notin DOMAIN r2.self.out_edges
                    THEN [self |-> r2.self, ok |-> FALSE]
                    ELSE LET s3 == [r2.self EXCEPT !.out_edges = MapRemove(@, v)]
                         IN IF v \notin DOMAIN s3.in_edges
                            THEN [self |-> s3, ok |-> FALSE]
                            ELSE [self |-> [s3 EXCEPT !.in_edges = MapRemove(@, v)],
                                  ok |-> TRUE]

\* Write a store value back to the variables.
Store(self) ==
    /\ vertex_labels' = self.vertex_labels
    /\ edge_labels' = self.edge_labels
    /\ out_edges' = self.out_edges
    /\ in_edges' = self.in_edges
    /\ edges' = self.edges
    /\ next_edge' = self.next_edge
    /\ next_vertex' = self.next_vertex

\* Mutant of AddVertex: the number of labelled vertices is used as the handle.
AddVertex_reuse ==
    /\ next_vertex < MaxVertices
    /\ LET n == Cardinality(DOMAIN vertex_labels)
       IN /\ next_vertex' = next_vertex + 1
          /\ vertex_labels' = MapInsert(vertex_labels, n, Label)
          /\ out_edges' = MapInsert(out_edges, n, <<>>)
          /\ in_edges' = MapInsert(in_edges, n, <<>>)
          /\ call' = Called("add_vertex", NoVertex, TRUE, n, <<>>)
    /\ UNCHANGED <<edge_labels, edges, next_edge>>

AddVertex ==
    /\ next_vertex < MaxVertices
    /\ LET n == next_vertex
       IN /\ next_vertex' = next_vertex + 1
          /\ vertex_labels' = MapInsert(vertex_labels, n, Label)
          /\ out_edges' = MapInsert(out_edges, n, <<>>)
          /\ in_edges' = MapInsert(in_edges, n, <<>>)
          /\ call' = Called("add_vertex", NoVertex, TRUE, n, <<>>)
    /\ UNCHANGED <<edge_labels, edges, next_edge>>

\* Mutant of AddEdge: the handle goes to the in-edge list of from and to the
\* out-edge list of to.
AddEdge_swapped(from, to) ==
    /\ next_edge < MaxEdges
    /\ IF from \in DOMAIN vertex_labels /\ to \in DOMAIN vertex_labels
       THEN LET e == next_edge
            IN /\ next_edge' = next_edge + 1
               /\ edge_labels' = MapInsert(edge_labels, e, Label)
               /\ edges' = MapInsert(edges, e, <<from, to>>)
               /\ in_edges' = [in_edges EXCEPT ![from] = Append(@, e)]
               /\ out_edges' = [out_edges EXCEPT ![to] = Append(@, e)]
               /\ call' = Called("add_edge", NoVertex, TRUE, e, <<>>)
               /\ UNCHANGED <<vertex_labels, next_vertex>>
       ELSE /\ call' = Called("add_edge", NoVertex, FALSE, NoVertex, <<>>)
            /\ UNCHANGED <<vertex_labels, edge_labels, out_edges, in_edges,
                           edges, next_edge, next_vertex>>

\* Mutant of AddEdge: the handle is allocated before the endpoints are looked
\* up, so a refused call still advances the counter.
AddEdge_count(from, to) ==
    /\ next_edge < MaxEdges
    /\ next_edge' = next_edge + 1
    /\ IF from \in DOMAIN vertex_labels /\ to \in DOMAIN vertex_labels
       THEN LET e == next_edge
            IN /\ edge_labels' = MapInsert(edge_labels, e, Label)
               /\ edges' = MapInsert(edges, e, <<from, to>>)
               /\ in_edges' = [in_edges EXCEPT ![to] = Append(@, e)]
               /\ out_edges' = [out_edges EXCEPT ![from] = Append(@, e)]
               /\ call' = Called("add_edge", NoVertex, TRUE, e, <<>>)
               /\ UNCHANGED <<vertex_labels, next_vertex>>
       ELSE /\ call' = Called("add_edge", NoVertex, FALSE, NoVertex, <<>>)
            /\ UNCHANGED <<vertex_labels, edge_labels, out_edges, in_edges,
                           edges, next_vertex>>

AddEdge(from, to) ==
    /\ next_edge < MaxEdges
    /\ IF from \in DOMAIN vertex_labels /\ to \in DOMAIN vertex_labels
       THEN LET e == next_edge
            IN /\ next_edge' = next_edge + 1
               /\ edge_labels' = MapInsert(edge_labels, e, Label)
               /\ edges' = MapInsert(edges, e, <<from, to>>)
               /\ IF to \in DOMAIN in_edges /\ from \in DOMAIN out_edges
                  THEN /\ in_edges' = [in_edges EXCEPT ![to] = Append(@, e)]
                       /\ out_edges' = [out_edges EXCEPT ![from] = Append(@, e)]
                       /\ call' = Called("add_edge", NoVertex, TRUE, e, <<>>)
                  ELSE /\ UNCHANGED <<in_edges, out_edges>>
                       /\ call' = Called("add_edge", NoVertex, FALSE, NoVertex, <<>>)
               /\ UNCHANGED <<vertex_labels, next_vertex>>
       ELSE /\ call' = Called("add_edge", NoVertex, FALSE, NoVertex, <<>>)
            /\ UNCHANGED <<vertex_labels, edge_labels, out_edges, in_edges,
                           edges, next_edge, next_vertex>>

RemoveVertex(v) ==
    LET r == remove_vertex(Self, v)
    IN /\ Store(r.self)
       /\ call' = Called("remove_vertex", NoVertex, r.ok,
                         IF r.ok THEN vertex_labels[v] ELSE NoVertex, <<>>)

RemoveEdge(e) ==
    LET r == remove_edge(Self, e)
    IN /\ Store(r.self)
       /\ call' = Called("remove_edge", NoVertex, r.ok,
                         IF r.ok THEN edge_labels[e] ELSE NoVertex, <<>>)

-----------------------------------------------------------------------------
(* dominators: the iterative fixpoint over bit sets *)

\* The orders in which graph.vertices() (the key iterator of a HashMap) can
\* enumerate the vertices.
VertexOrders ==
    LET n == Cardinality(vertices)
    IN {o \in [1..n -> vertices] : \A i, j \in 1..n : o[i] = o[j] => i = j}

\* Outcome of a call that panicked / that returned v.
Panic == [ok |-> FALSE, val |-> <<>>]
Returned(v) == [ok |-> TRUE, val |-> v]

\* Mutant of dom_meet: the sets of the predecessors are united instead of
\* intersected.
RECURSIVE dom_meet_union(_, _, _, _, _, _)
dom_meet_union(graph, list, i, my_dom, cur_dom, vertex_idx) ==
    IF i > Len(list) THEN my_dom
    ELSE LET prev == cur_dom[vertex_idx[graph.edges[list[i]][1]]]
             s == IF my_dom.some
                  THEN [some |-> TRUE, set |-> my_dom.set \cup prev]
                  ELSE [some |-> TRUE, set |-> prev]
         IN dom_meet_union(graph, list, i + 1, s, cur_dom, vertex_idx)

\* The loop over graph.in_edges(vx): my_dom is None (some = FALSE) until
\* the first edge, then intersected with the set of each edge's source.
RECURSIVE dom_meet(_, _, _, _, _, _)
dom_meet(graph, list, i, my_dom, cur_dom, vertex_idx) ==
    IF i > Len(list) THEN my_dom
    ELSE LET prev == cur_dom[vertex_idx[graph.edges[list[i]][1]]]
             s == IF my_dom.some
                  THEN [some |-> TRUE, set |-> my_dom.set \cap prev]
                  ELSE [some |-> TRUE, set |-> prev]
         IN dom_meet(graph, list, i + 1, s, cur_dom, vertex_idx)

\* Mutant of final_dom: a vertex without in-edges keeps the universal set
\* instead of the empty one.
final_dom_top(graph, vx, start, cur_dom, vertex_idx) ==
    LET none == [some |-> FALSE, set |-> {}]
        my_dom == IF vx # start
                  THEN dom_meet(graph, graph.in_edges[vx], 1, none, cur_dom, vertex_idx)
                  ELSE none
    IN (IF my_dom.some \/ vx = start THEN my_dom.set ELSE DOMAIN cur_dom)
           \cup {vertex_idx[vx]}

\* The set stored in next_dom[vertex_idx[vx]] by one pass.
final_dom(graph, vx, start, cur_dom, vertex_idx) ==
    LET none == [some |-> FALSE, set |-> {}]
        my_dom == IF vx # start
                  THEN dom_meet(graph, graph.in_edges[vx], 1, none, cur_dom, vertex_idx)
                  ELSE none
    IN (IF my_dom.some THEN my_dom.set ELSE {}) \cup {vertex_idx[vx]}

\* One pass of the while loop: next_dom computed from cur_dom.
dom_pass(graph, start, cur_dom, vertex_idx, vertex_ridx) ==
    [i \in DOMAIN cur_dom |->
        final_dom(graph, vertex_ridx[i], start, cur_dom, vertex_idx)]

\* The while !fixpoint loop: the first cur_dom that a pass leaves unchanged.
RECURSIVE dom_fixpoint(_, _, _, _, _)
dom_fixpoint(graph, start, cur_dom, vertex_idx, vertex_ridx) ==
    LET next_dom == dom_pass(graph, start, cur_dom, vertex_idx, vertex_ridx)
    IN IF next_dom = cur_dom THEN next_dom
       ELSE dom_fixpoint(graph, start, next_dom, vertex_idx, vertex_ridx)

\* dominators(start, graph) when graph.vertices() enumerates in `order`.
\* Indexing vertex_idx with the source of an in-edge panics when that source
\* is not a vertex of the graph.
dominators(start, graph, order) ==
    LET n == Len(order)
        vertex_idx == [v \in Range(order) |-> Position(order, v) - 1]
        vertex_ridx == [i \in 0..(n - 1) |-> order[i + 1]]
        all_set == 0..(n - 1)
        cur_dom == [i \in 0..(n - 1) |-> all_set]
        missing == \E vx \in Range(order) \ {start} :
                      \E e \in Range(graph.in_edges[vx]) :
                          graph.edges[e][1] \notin Range(order)
    IN IF missing THEN Panic
       ELSE LET fix == dom_fixpoint(graph, start, cur_dom, vertex_idx, vertex_ridx)
            IN Returned([v \in Range(order) |->
                   SortedSeq({vertex_ridx[a] : a \in fix[vertex_idx[v]]})])

-----------------------------------------------------------------------------
(* immediate_dominator: Cooper, Harvey, Kennedy *)

\* TreeIterator::new(start, TraversalOrder::Postorder, graph): the
\* depth-first postorder of the vertices reachable from start, following
\* the out-edge lists in their order.
RECURSIVE dfs_visit(_, _, _)
RECURSIVE dfs_edges(_, _, _, _)
dfs_visit(graph, v, st) ==
    LET st1 == [st EXCEPT !.seen = @ \cup {v}]
        st2 == dfs_edges(graph, graph.out_edges[v], 1, st1)
    IN [st2 EXCEPT !.post = Append(@, v)]
dfs_edges(graph, list, i, st) ==
    IF i > Len(list) THEN st
    ELSE LET t == graph.edges[list[i]][2]
         IN dfs_edges(graph, list, i + 1,
                      IF t \in st.seen THEN st ELSE dfs_visit(graph, t, st))

postorder(graph, start) ==
    dfs_visit(graph, start, [seen |-> {}, post |-> <<>>]).post

Reverse(s) == [i \in 1..Len(s) |-> s[Len(s) + 1 - i]]

\* The two-finger walk of intersect on RPO indices; -1 when a lookup in
\* ret or rpo_idx fails (the indexing panics).
RECURSIVE intersect_walk(_, _, _, _, _)
intersect_walk(f1, f2, rpo_idx, rev_postorder, ret) ==
    IF f1 = f2 THEN f1
    ELSE LET x == rev_postorder[(IF f1 > f2 THEN f1 ELSE f2) + 1]
         IN IF x \notin DOMAIN ret \/ ret[x] \notin DOMAIN rpo_idx THEN -1
            ELSE IF f1 > f2
                 THEN intersect_walk(rpo_idx[ret[x]], f2, rpo_idx, rev_postorder, ret)
                 ELSE intersect_walk(f1, rpo_idx[ret[x]], rpo_idx, rev_postorder, ret)

\* Mutant of intersect: the first finger is returned without walking.
intersect_first(p, q, rpo_idx, rev_postorder, ret) ==
    IF p \notin DOMAIN rpo_idx \/ q \notin DOMAIN rpo_idx THEN Panic
    ELSE Returned(p)

\* intersect(p, q, rpo_idx, rev_postorder, ret).
intersect(p, q, rpo_idx, rev_postorder, ret) ==
    IF p \notin DOMAIN rpo_idx \/ q \notin DOMAIN rpo_idx THEN Panic
    ELSE LET f == intersect_walk(rpo_idx[p], rpo_idx[q], rpo_idx, rev_postorder, ret)
         IN IF f = -1 THEN Panic ELSE Returned(rev_postorder[f + 1])

\* Mutant of new_idom_fold: the first predecessor other than b is kept, the
\* later ones are not folded in.
RECURSIVE new_idom_keep_first(_, _, _, _, _, _, _, _)
new_idom_keep_first(graph, b, list, i, new_idom, rpo_idx, rev_postorder, ret) ==
    IF i > Len(list) THEN Returned(new_idom)
    ELSE LET p == graph.edges[list[i]][1]
         IN new_idom_keep_first(graph, b, list, i + 1,
                IF p # b /\ new_idom = NoVertex THEN p ELSE new_idom,
                rpo_idx, rev_postorder, ret)

\* The loop over graph.in_edges(b): new_idom is None (NoVertex) until the
\* first predecessor other than b.
RECURSIVE new_idom_fold(_, _, _, _, _, _, _, _)
new_idom_fold(graph, b, list, i, new_idom, rpo_idx, rev_postorder, ret) ==
    IF i > Len(list) THEN Returned(new_idom)
    ELSE LET p == graph.edges[list[i]][1]
         IN IF p = b
            THEN new_idom_fold(graph, b, list, i + 1, new_idom, rpo_idx, rev_postorder, ret)
            ELSE IF new_idom # NoVertex
            THEN IF p \in DOMAIN ret
                 THEN LET d == intersect(p, new_idom, rpo_idx, rev_postorder, ret)
                      IN IF ~d.ok THEN Panic
                         ELSE new_idom_fold(graph, b, list, i + 1, d.val,
                                            rpo_idx, rev_postorder, ret)
                 ELSE new_idom_fold(graph, b, list, i + 1, new_idom,
                                    rpo_idx, rev_postorder, ret)
            ELSE new_idom_fold(graph, b, list, i + 1, p, rpo_idx, rev_postorder, ret)

\* One pass of "for b in rev_postorder.iter().filter(v != start)" from
\* position k on; st = [ok, ret, fixpoint].
RECURSIVE idom_pass(_, _, _, _, _, _)
idom_pass(graph, start, rev_postorder, rpo_idx, k, st) ==
    IF ~st.ok \/ k > Len(rev_postorder) THEN st
    ELSE LET b == rev_postorder[k]
             r == new_idom_fold(graph, b, graph.in_edges[b], 1, NoVertex,
                                rpo_idx, rev_postorder, st.ret)
         IN IF b = start
            THEN idom_pass(graph, start, rev_postorder, rpo_idx, k + 1, st)
            ELSE IF ~r.ok \/ r.val = NoVertex
            THEN [st EXCEPT !.ok = FALSE]
            ELSE IF b \in DOMAIN st.ret /\ st.ret[b] = r.val
            THEN idom_pass(graph, start, rev_postorder, rpo_idx, k + 1, st)
            ELSE idom_pass(graph, start, rev_postorder, rpo_idx, k + 1,
                           [st EXCEPT !.ret = MapInsert(@, b, r.val),
                                      !.fixpoint = FALSE])

\* The while !fixpoint loop of immediate_dominator.
RECURSIVE idom_loop(_, _, _, _, _)
idom_loop(graph, start, rev_postorder, rpo_idx, ret) ==
    LET st == idom_pass(graph, start, rev_postorder, rpo_idx, 1,
                        [ok |-> TRUE, ret |-> ret, fixpoint |-> TRUE])
    IN IF ~st.ok THEN Panic
       ELSE IF st.fixpoint THEN Returned(st.ret)
       ELSE idom_loop(graph, start, rev_postorder, rpo_idx, st.ret)

immediate_dominator(start, graph) ==
    LET rev_postorder == Reverse(postorder(graph, start))
        rpo_idx == [v \in Range(rev_postorder) |-> Position(rev_postorder, v) - 1]
    IN idom_loop(graph, start, rev_postorder, rpo_idx, MapInsert(<<>>, start, start))

-----------------------------------------------------------------------------
(* dominance_frontiers *)

\* The while runner != idom[&b] loop; st = [ok, ret], ret maps a vertex to
\* the vector of vertices pushed so far.
RECURSIVE df_runner(_, _, _, _)
df_runner(idom, b, runner, st) ==
    IF b \notin DOMAIN idom THEN [st EXCEPT !.ok = FALSE]
    ELSE IF runner = idom[b] THEN st
    ELSE LET pushed == MapInsert(st.ret, runner,
                          Append(IF runner \in DOMAIN st.ret THEN st.ret[runner]
                                 ELSE <<>>, b))
         IN IF runner \notin DOMAIN idom
            THEN [ok |-> FALSE, ret |-> pushed]
            ELSE df_runner(idom, b, idom[runner], [st EXCEPT !.ret = pushed])

\* The loop over graph.in_edges(b) of a vertex b of in-degree >= 2.
RECURSIVE df_edges(_, _, _, _, _, _)
df_edges(idom, graph, b, list, i, st) ==
    IF ~st.ok \/ i > Len(list) THEN st
    ELSE LET p == graph.edges[list[i]][1]
         IN df_edges(idom, graph, b, list, i + 1, df_runner(idom, b, p, st))

\* The loop over graph.vertices(), enumerated in `order`, from position k.
RECURSIVE df_vertices(_, _, _, _, _)
df_vertices(idom, graph, order, k, st) ==
    IF ~st.ok \/ k > Len(order) THEN st
    ELSE LET b == order[k]
         IN df_vertices(idom, graph, order, k + 1,
               IF Len(graph.in_edges[b]) >= 2
               THEN df_edges(idom, graph, b, graph.in_edges[b], 1, st)
               ELSE st)

dominance_frontiers(idom, graph, order) ==
    LET ret == [v \in Range(order) |-> <<>>]
        st == df_vertices(idom, graph, order, 1, [ok |-> TRUE, ret |-> ret])
    IN IF ~st.ok THEN Panic
       ELSE Returned([v \in DOMAIN st.ret |-> SortedSeq(Range(st.ret[v]))])

-----------------------------------------------------------------------------
(* The calls of the dominance engine made by a client of the store *)

StoreCalls == {"new", "add_vertex", "add_edge", "remove_vertex", "remove_edge"}

CallDominators(start) ==
    /\ call.fn \in StoreCalls
    /\ \E order \in VertexOrders :
          LET r == dominators(start, Self, order)
          IN call' = Called("dominators", start, r.ok, r.val, <<>>)
    /\ UNCHANGED <<vertex_labels, edge_labels, out_edges, in_edges, edges,
                   next_edge, next_vertex>>

CallImmediateDominator(start) ==
    /\ call.fn \in StoreCalls
    /\ LET r == immediate_dominator(start, Self)
       IN call' = Called("immediate_dominator", start, r.ok, r.val, <<>>)
    /\ UNCHANGED <<vertex_labels, edge_labels, out_edges, in_edges, edges,
                   next_edge, next_vertex>>

\* dominance_frontiers(&idom, &g) with the map the previous call returned.
CallDominanceFrontiers ==
    /\ call.fn = "immediate_dominator"
    /\ call.ok
    /\ \E order \in VertexOrders :
          LET r == dominance_frontiers(call.ret, Self, order)
          IN call' = Called("dominance_frontiers", call.start, r.ok, r.val, call.ret)
    /\ UNCHANGED <<vertex_labels, edge_labels, out_edges, in_edges, edges,
                   next_edge, next_vertex>>

-----------------------------------------------------------------------------
(* adjacent_vertices and its iterator *)

\* The vector of adjacent_vertices before the removal of duplicates: the
\* targets of the out-edges chained with the sources of the in-edges.
adjacent_raw(self, v) ==
    [k \in 1..Len(self.out_edges[v]) |-> self.edges[self.out_edges[v][k]][2]]
        \o [k \in 1..Len(self.in_edges[v]) |-> self.edges[self.in_edges[v][k]][1]]

\* Mutant of adjacent_vertices: the vector is reversed instead of sorted and
\* deduplicated.
adjacent_vertices_unsorted(self, v) ==
    IF v \notin DOMAIN self.out_edges \/ v \notin DOMAIN self.in_edges THEN Panic
    ELSE IF \E e \in Range(self.out_edges[v]) \cup Range(self.in_edges[v]) :
               e \notin DOMAIN self.edges
    THEN Panic
    ELSE Returned(Reverse(adjacent_raw(self, v)))

\* adjacent_vertices(v): the boxed vector raw after sort and dedup; the
\* unwraps panic when v has no adjacency list or a listed edge no endpoints.
adjacent_vertices(self, v) ==
    IF v \notin DOMAIN self.out_edges \/ v \notin DOMAIN self.in_edges THEN Panic
    ELSE IF \E e \in Range(self.out_edges[v]) \cup Range(self.in_edges[v]) :
               e \notin DOMAIN self.edges
    THEN Panic
    ELSE Returned(SortedSeq(Range(adjacent_raw(self, v))))

\* GraphAdjacency::next called until None: the vector popped from its end.
GraphAdjacency_next(adj) == Reverse(adj)

\* adjacent_vertices(v).collect() by a client.
CallAdjacentVertices(v) ==
    /\ LET r == adjacent_vertices(Self, v)
       IN call' = Called("adjacent_vertices", v, r.ok,
                         IF r.ok THEN GraphAdjacency_next(r.val) ELSE <<>>, <<>>)
    /\ UNCHANGED <<vertex_labels, edge_labels, out_edges, in_edges, edges,
                   next_edge, next_vertex>>

-----------------------------------------------------------------------------
(* dominators, statement by statement *)

\* vertex_idx / vertex_ridx of a run whose graph.vertices() enumerates in
\* `order`.
vertex_idx_of(order) == [v \in Range(order) |-> Position(order, v) - 1]
vertex_ridx_of(order) == [i \in 0..(Len(order) - 1) |-> order[i + 1]]

\* Mutant of dom_read: the sets already written in this pass are read in
\* place of the ones of the previous pass.
dom_read_inplace(fr) ==
    [i \in DOMAIN fr.cur_dom |-> IF i + 1 < fr.k THEN fr.next_dom[i] ELSE fr.cur_dom[i]]

\* The vector the body of a pass reads: &cur_dom[..].
dom_read(fr) == fr.cur_dom

\* The call of dominators(start, &graph) up to the while loop. The graph is
\* borrowed for the whole call, so the store does not change while it runs.
DomBegin(start, order) ==
    /\ frame = Idle
    /\ call.fn \in StoreCalls
    /\ Cardinality(DOMAIN edges) <= MaxLoopEdges
    /\ LET n == Len(order)
       IN frame' = [pc |-> "dom_while", start |-> start, order |-> order,
                    fixpoint |-> FALSE, k |-> 0,
                    cur_dom |-> [i \in 0..(n - 1) |-> 0..(n - 1)],
                    next_dom |-> <<>>]
    /\ UNCHANGED <<vertex_labels, edge_labels, out_edges, in_edges, edges,
                   next_edge, next_vertex, call>>

\* while !fixpoint: a new pass starts with next_dom all empty; after the
\* loop the sets are translated to sorted vertex vectors and returned.
DomWhile ==
    /\ frame.pc = "dom_while"
    /\ IF frame.fixpoint
       THEN LET vertex_idx == vertex_idx_of(frame.order)
                vertex_ridx == vertex_ridx_of(frame.order)
            IN /\ call' = Called("dominators", frame.start, TRUE,
                             [v \in Range(frame.order) |->
                                SortedSeq({vertex_ridx[a] : a \in frame.cur_dom[vertex_idx[v]]})],
                             <<>>)
               /\ frame' = Idle
       ELSE /\ frame' = [frame EXCEPT !.pc = "dom_for", !.k = 1,
                                      !.next_dom = [i \in DOMAIN frame.cur_dom |-> {}]]
            /\ UNCHANGED call
    /\ UNCHANGED <<vertex_labels, edge_labels, out_edges, in_edges, edges,
                   next_edge, next_vertex>>

\* The body of "for vx in graph.vertices()" for the k-th vertex.
DomVertex ==
    /\ frame.pc = "dom_for"
    /\ frame.k <= Len(frame.order)
    /\ LET vx == frame.order[frame.k]
           vertex_idx == vertex_idx_of(frame.order)
           missing == vx # frame.start /\ \E e \in Range(in_edges[vx]) :
                          edges[e][1] \notin DOMAIN vertex_idx
       IN IF missing
          THEN /\ call' = Called("dominators", frame.start, FALSE, <<>>, <<>>)
               /\ frame' = Idle
          ELSE /\ frame' = [frame EXCEPT
                      !.next_dom[vertex_idx[vx]] =
                          final_dom(Self, vx, frame.start, dom_read(frame), vertex_idx),
                      !.k = @ + 1]
               /\ UNCHANGED call
    /\ UNCHANGED <<vertex_labels, edge_labels, out_edges, in_edges, edges,
                   next_edge, next_vertex>>

\* fixpoint = next_dom == cur_dom; cur_dom = next_dom.
DomSwap ==
    /\ frame.pc = "dom_for"
    /\ frame.k > Len(frame.order)
    /\ frame' = [frame EXCEPT !.pc = "dom_while", !.k = 0,
                              !.fixpoint = (frame.next_dom = frame.cur_dom),
                              !.cur_dom = frame.next_dom,
                              !.next_dom = <<>>]
    /\ UNCHANGED <<vertex_labels, edge_labels, out_edges, in_edges, edges,
                   next_edge, next_vertex, call>>

-----------------------------------------------------------------------------
(* immediate_dominator, statement by statement *)

rpo_idx_of(rev_postorder) ==
    [v \in Range(rev_postorder) |-> Position(rev_postorder, v) - 1]

\* The running call panics: an index or the assert failed.
IdomPanic ==
    /\ call' = Called("immediate_dominator", frame.start, FALSE, <<>>, <<>>)
    /\ frame' = Idle

\* The call of immediate_dominator(start, &graph) up to the while loop.
IdomBegin(start) ==
    /\ frame = Idle
    /\ call.fn \in StoreCalls
    /\ Cardinality(DOMAIN edges) <= MaxLoopEdges
    /\ frame' = [pc |-> "idom_while", start |-> start,
                 rev_postorder |-> Reverse(postorder(Self, start)),
                 ret |-> MapInsert(<<>>, start, start), fixpoint |-> FALSE,
                 k |-> 0, i |-> 0, new_idom |-> NoVertex, f1 |-> 0, f2 |-> 0]
    /\ UNCHANGED <<vertex_labels, edge_labels, out_edges, in_edges, edges,
                   next_edge, next_vertex, call>>

\* while !fixpoint { fixpoint = true; ... } and the return of ret.
IdomWhile ==
    /\ frame.pc = "idom_while"
    /\ IF frame.fixpoint
       THEN /\ call' = Called("immediate_dominator", frame.start, TRUE, frame.ret, <<>>)
            /\ frame' = Idle
       ELSE /\ frame' = [frame EXCEPT !.pc = "idom_for_b", !.fixpoint = TRUE, !.k = 1]
            /\ UNCHANGED call
    /\ UNCHANGED <<vertex_labels, edge_labels, out_edges, in_edges, edges,
                   next_edge, next_vertex>>

\* for b in rev_postorder.iter().filter(|&&v| v != start): the next b, with
\* new_idom = None.
IdomForB ==
    /\ frame.pc = "idom_for_b"
    /\ frame' = IF frame.k > Len(frame.rev_postorder)
                THEN [frame EXCEPT !.pc = "idom_while", !.k = 0]
                ELSE IF frame.rev_postorder[frame.k] = frame.start
                THEN [frame EXCEPT !.k = @ + 1]
                ELSE [frame EXCEPT !.pc = "idom_for_e", !.i = 1, !.new_idom = NoVertex]
    /\ UNCHANGED <<vertex_labels, edge_labels, out_edges, in_edges, edges,
                   next_edge, next_vertex, call>>

\* The body of "for e in graph.in_edges(*b)" for the i-th in-edge, up to the
\* first two statements of intersect.
IdomEdge ==
    /\ frame.pc = "idom_for_e"
    /\ LET b == frame.rev_postorder[frame.k]
           rpo_idx == rpo_idx_of(frame.rev_postorder)
       IN /\ frame.i <= Len(in_edges[b])
          /\ LET p == edges[in_edges[b][frame.i]][1]
             IN IF p = b
                THEN frame' = [frame EXCEPT !.i = @ + 1] /\ UNCHANGED call
                ELSE IF frame.new_idom = NoVertex
                THEN frame' = [frame EXCEPT !.new_idom = p, !.i = @ + 1] /\ UNCHANGED call
                ELSE IF p \notin DOMAIN frame.ret
                THEN frame' = [frame EXCEPT !.i = @ + 1] /\ UNCHANGED call
                ELSE IF p \notin DOMAIN rpo_idx \/ frame.new_idom \notin DOMAIN rpo_idx
                THEN IdomPanic
                ELSE /\ frame' = [frame EXCEPT !.pc = "intersect",
                                               !.f1 = rpo_idx[p],
                                               !.f2 = rpo_idx[frame.new_idom]]
                     /\ UNCHANGED call
    /\ UNCHANGED <<vertex_labels, edge_labels, out_edges, in_edges, edges,
                   next_edge, next_vertex>>

\* while f1 != f2 of intersect: one move of the finger that is further down,
\* or the return of rev_postorder[f1] into *d.
IdomIntersect ==
    /\ frame.pc = "intersect"
    /\ LET rpo_idx == rpo_idx_of(frame.rev_postorder)
           f == IF frame.f1 > frame.f2 THEN frame.f1 ELSE frame.f2
           x == frame.rev_postorder[f + 1]
       IN IF frame.f1 = frame.f2
          THEN /\ frame' = [frame EXCEPT !.pc = "idom_for_e",
                                         !.new_idom = frame.rev_postorder[frame.f1 + 1],
                                         !.i = @ + 1, !.f1 = 0, !.f2 = 0]
               /\ UNCHANGED call
          ELSE IF x \notin DOMAIN frame.ret \/ frame.ret[x] \notin DOMAIN rpo_idx
          THEN IdomPanic
          ELSE /\ frame' = IF frame.f1 > frame.f2
                           THEN [frame EXCEPT !.f1 = rpo_idx[frame.ret[x]]]
                           ELSE [frame EXCEPT !.f2 = rpo_idx[frame.ret[x]]]
               /\ UNCHANGED call
    /\ UNCHANGED <<vertex_labels, edge_labels, out_edges, in_edges, edges,
                   next_edge, next_vertex>>

\* After the in-edges of b: assert!(new_idom.is_some()) and the update of
\* ret[b].
IdomAssign ==
    /\ frame.pc = "idom_for_e"
    /\ LET b == frame.rev_postorder[frame.k]
       IN /\ frame.i > Len(in_edges[b])
          /\ IF frame.new_idom = NoVertex
             THEN IdomPanic
             ELSE /\ frame' =
                       IF b \in DOMAIN frame.ret /\ frame.ret[b] = frame.new_idom
                       THEN [frame EXCEPT !.pc = "idom_for_b", !.k = @ + 1,
                                          !.i = 0, !.new_idom = NoVertex]
                       ELSE [frame EXCEPT !.pc = "idom_for_b", !.k = @ + 1,
                                          !.i = 0, !.new_idom = NoVertex,
                                          !.ret = MapInsert(@, b, frame.new_idom),
                                          !.fixpoint = FALSE]
                  /\ UNCHANGED call
    /\ UNCHANGED <<vertex_labels, edge_labels, out_edges, in_edges, edges,
                   next_edge, next_vertex>>

-----------------------------------------------------------------------------
(* dominance_frontiers, statement by statement *)

\* Mutant of df_stop: the walk stops one step further up the tree.
df_stop_late(idom, b, runner) == runner = idom[idom[b]]

\* The negated condition of "while runner != idom[&b]".
df_stop(idom, b, runner) == runner = idom[b]

\* The running call panics: idom is indexed with a vertex it does not hold.
DfPanic ==
    /\ call' = Called("dominance_frontiers", frame.start, FALSE, <<>>, frame.idom)
    /\ frame' = Idle

\* The call of dominance_frontiers(&idom, &graph), with the map the call of
\* immediate_dominator returned, up to the loop over the vertices.
DfBegin(order) ==
    /\ frame = Idle
    /\ call.fn = "immediate_dominator"
    /\ call.ok
    /\ Cardinality(DOMAIN edges) <= MaxLoopEdges
    /\ frame' = [pc |-> "df_for_b", start |-> call.start, idom |-> call.ret,
                 order |-> order, ret |-> [v \in Range(order) |-> <<>>],
                 k |-> 1, i |-> 0, runner |-> NoVertex]
    /\ UNCHANGED <<vertex_labels, edge_labels, out_edges, in_edges, edges,
                   next_edge, next_vertex, call>>

\* for b in graph.vertices() { if graph.in_degree(b) >= 2 ... }, and after
\* the loop the sort and dedup of every vector and the return.
DfForB ==
    /\ frame.pc = "df_for_b"
    /\ IF frame.k > Len(frame.order)
       THEN /\ call' = Called("dominance_frontiers", frame.start, TRUE,
                          [v \in DOMAIN frame.ret |-> SortedSeq(Range(frame.ret[v]))],
                          frame.idom)
            /\ frame' = Idle
       ELSE /\ frame' = IF Len(in_edges[frame.order[frame.k]]) >= 2
                        THEN [frame EXCEPT !.pc = "df_for_e", !.i = 1]
                        ELSE [frame EXCEPT !.k = @ + 1]
            /\ UNCHANGED call
    /\ UNCHANGED <<vertex_labels, edge_labels, out_edges, in_edges, edges,
                   next_edge, next_vertex>>

\* for e in graph.in_edges(b) { let p = graph.source(e); let mut runner = p;
DfEdge ==
    /\ frame.pc = "df_for_e"
    /\ LET b == frame.order[frame.k]
       IN frame' = IF frame.i > Len(in_edges[b])
                   THEN [frame EXCEPT !.pc = "df_for_b", !.k = @ + 1, !.i = 0]
                   ELSE [frame EXCEPT !.pc = "df_while",
                                      !.runner = edges[in_edges[b][frame.i]][1]]
    /\ UNCHANGED <<vertex_labels, edge_labels, out_edges, in_edges, edges,
                   next_edge, next_vertex, call>>

\* One test of "while runner != idom[&b]" and, when it holds, the body:
\* push b to the vector of runner, runner = idom[&runner].
DfRunner ==
    /\ frame.pc = "df_while"
    /\ LET b == frame.order[frame.k]
           runner == frame.runner
       IN IF b \notin DOMAIN frame.idom
          THEN DfPanic
          ELSE IF df_stop(frame.idom, b, runner)
          THEN /\ frame' = [frame EXCEPT !.pc = "df_for_e", !.i = @ + 1,
                                         !.runner = NoVertex]
               /\ UNCHANGED call
          ELSE IF runner \notin DOMAIN frame.idom
          THEN DfPanic
          ELSE /\ frame' = [frame EXCEPT
                      !.ret = MapInsert(@, runner,
                                 Append(IF runner \in DOMAIN @ THEN @[runner] ELSE <<>>, b)),
                      !.runner = frame.idom[runner]]
               /\ UNCHANGED call
    /\ UNCHANGED <<vertex_labels, edge_labels, out_edges, in_edges, edges,
                   next_edge, next_vertex>>

-----------------------------------------------------------------------------
(* remove_vertex, statement by statement *)

\* let ret = self.vertex_labels.remove(&v): the label is removed first. With
\* a label, the in-edge and the out-edge list of v are copied to todel1 and
\* todel2; without one the call returns None.
RvBegin(v) ==
    /\ frame = Idle
    /\ vertex_labels' = MapRemove(vertex_labels, v)
    /\ IF v \in DOMAIN vertex_labels
       THEN /\ frame' = [pc |-> "rv_todel1", v |-> v, ret |-> vertex_labels[v],
                         todel1 |-> IF v \in DOMAIN in_edges THEN in_edges[v] ELSE <<>>,
                         todel2 |-> IF v \in DOMAIN out_edges THEN out_edges[v] ELSE <<>>,
                         j |-> 1]
            /\ UNCHANGED call
       ELSE /\ call' = Called("remove_vertex", NoVertex, FALSE, NoVertex, <<>>)
            /\ UNCHANGED frame
    /\ UNCHANGED <<edge_labels, out_edges, in_edges, edges, next_edge, next_vertex>>

\* One round of "for e in todel1.iter()": remove_edge(*e), with return None
\* when it fails; after the last edge the second loop starts.
RvTodel1 ==
    /\ frame.pc = "rv_todel1"
    /\ IF frame.j > Len(frame.todel1)
       THEN /\ frame' = [frame EXCEPT !.pc = "rv_todel2", !.j = 1]
            /\ UNCHANGED <<vertex_labels, edge_labels, out_edges, in_edges, edges,
                           next_edge, next_vertex, call>>
       ELSE LET r == remove_edge(Self, frame.todel1[frame.j])
            IN /\ Store(r.self)
               /\ IF r.ok
                  THEN frame' = [frame EXCEPT !.j = @ + 1] /\ UNCHANGED call
                  ELSE /\ call' = Called("remove_vertex", NoVertex, FALSE, NoVertex, <<>>)
                       /\ frame' = Idle

\* One round of "for e in todel2.iter()".
RvTodel2 ==
    /\ frame.pc = "rv_todel2"
    /\ IF frame.j > Len(frame.todel2)
       THEN /\ frame' = [frame EXCEPT !.pc = "rv_lists", !.j = 0]
            /\ UNCHANGED <<vertex_labels, edge_labels, out_edges, in_edges, edges,
                           next_edge, next_vertex, call>>
       ELSE LET r == remove_edge(Self, frame.todel2[frame.j])
            IN /\ Store(r.self)
               /\ IF r.ok
                  THEN frame' = [frame EXCEPT !.j = @ + 1] /\ UNCHANGED call
                  ELSE /\ call' = Called("remove_vertex", NoVertex, FALSE, NoVertex, <<>>)
                       /\ frame' = Idle

\* if self.out_edges.remove(&v).is_some() && self.in_edges.remove(&v).is_some()
\* { return ret; } return None;
RvLists ==
    /\ frame.pc = "rv_lists"
    /\ out_edges' = MapRemove(out_edges, frame.v)
    /\ IF frame.v \in DOMAIN out_edges
       THEN /\ in_edges' = MapRemove(in_edges, frame.v)
            /\ call' = IF frame.v \in DOMAIN in_edges
                       THEN Called("remove_vertex", NoVertex, TRUE, frame.ret, <<>>)
                       ELSE Called("remove_vertex", NoVertex, FALSE, NoVertex, <<>>)
       ELSE /\ UNCHANGED in_edges
            /\ call' = Called("remove_vertex", NoVertex, FALSE, NoVertex, <<>>)
    /\ frame' = Idle
    /\ UNCHANGED <<vertex_labels, edge_labels, edges, next_edge, next_vertex>>

Next ==
    \/ AddVertex /\ UNCHANGED frame
    \/ \E from, to \in 0..(MaxVertices - 1) : AddEdge(from, to) /\ UNCHANGED frame
    \/ \E v \in 0..(MaxVertices - 1) : RemoveVertex(v) /\ UNCHANGED frame
    \/ \E e \in 0..(MaxEdges - 1) : RemoveEdge(e) /\ UNCHANGED frame
    \/ \E v \in 0..(MaxVertices - 1) : CallAdjacentVertices(v) /\ UNCHANGED frame

Spec == Init /\ [][Next]_vars

\* The dominance calls on graphs built by insertion.
NextDom ==
    \/ AddVertex /\ UNCHANGED frame
    \/ \E from, to \in 0..(MaxVertices - 1) : AddEdge(from, to) /\ UNCHANGED frame
    \/ \E start \in vertices : CallDominators(start) /\ UNCHANGED frame
    \/ \E start \in vertices : CallImmediateDominator(start) /\ UNCHANGED frame
    \/ CallDominanceFrontiers /\ UNCHANGED frame

SpecDom == Init /\ [][NextDom]_vars

\* A call of dominators run statement by statement on graphs built by
\* insertion; the store is borrowed while the call runs.
NextDomLoop ==
    \/ frame = Idle /\ AddVertex /\ UNCHANGED frame
    \/ \E from, to \in 0..(MaxVertices - 1) :
          frame = Idle /\ AddEdge(from, to) /\ UNCHANGED frame
    \/ \E start \in vertices : \E order \in VertexOrders : DomBegin(start, order)
    \/ DomWhile
    \/ DomVertex
    \/ DomSwap

SpecDomLoop == Init /\ [][NextDomLoop]_vars

\* A call of immediate_dominator run statement by statement on graphs built
\* by insertion.
NextIdomLoop ==
    \/ frame = Idle /\ AddVertex /\ UNCHANGED frame
    \/ \E from, to \in 0..(MaxVertices - 1) :
          frame = Idle /\ AddEdge(from, to) /\ UNCHANGED frame
    \/ \E start \in vertices : IdomBegin(start)
    \/ IdomWhile
    \/ IdomForB
    \/ IdomEdge
    \/ IdomIntersect
    \/ IdomAssign

SpecIdomLoop == Init /\ [][NextIdomLoop]_vars

\* The store with remove_vertex run statement by statement; the store is
\* borrowed mutably by the running call, no other call is made meanwhile.
NextRemoveVertex ==
    \/ frame = Idle /\ AddVertex /\ UNCHANGED frame
    \/ \E from, to \in 0..(MaxVertices - 1) :
          frame = Idle /\ AddEdge(from, to) /\ UNCHANGED frame
    \/ \E e \in 0..(MaxEdges - 1) : frame = Idle /\ RemoveEdge(e) /\ UNCHANGED frame
    \/ \E v \in 0..(MaxVertices - 1) : RvBegin(v)
    \/ RvTodel1
    \/ RvTodel2
    \/ RvLists

SpecRemoveVertex == Init /\ [][NextRemoveVertex]_vars

\* A call of dominance_frontiers run statement by statement on the map a
\* call of immediate_dominator returned for a graph built by insertion.
NextDfLoop ==
    \/ frame = Idle /\ AddVertex /\ UNCHANGED frame
    \/ \E from, to \in 0..(MaxVertices - 1) :
          frame = Idle /\ AddEdge(from, to) /\ UNCHANGED frame
    \/ \E start \in vertices :
          frame = Idle /\ CallImmediateDominator(start) /\ UNCHANGED frame
    \/ \E order \in VertexOrders : DfBegin(order)
    \/ DfForB
    \/ DfEdge
    \/ DfRunner

SpecDfLoop == Init /\ [][NextDfLoop]_vars

FairSpecDfLoop ==
    SpecDfLoop /\ WF_vars(DfForB) /\ WF_vars(DfEdge) /\ WF_vars(DfRunner)

\* The call is sequential code: once started, its next statement is executed.
FairSpecDomLoop ==
    SpecDomLoop /\ WF_vars(DomWhile) /\ WF_vars(DomVertex) /\ WF_vars(DomSwap)

-----------------------------------------------------------------------------
(* Reference definitions for the properties: paths in the graph *)

\* The (source, target) pairs of the recorded edges.
EdgePairs == {edges[e] : e \in DOMAIN edges}

\* The vertices reached from the set S along edges without entering `avoid`.
RECURSIVE ReachFrom(_, _)
ReachFrom(S, avoid) ==
    LET N == S \cup {t \in vertices \ {avoid} : \E v \in S : <<v, t>> \in EdgePairs}
    IN IF N = S THEN S ELSE ReachFrom(N, avoid)

Reachable(start) == ReachFrom({start}, NoVertex)

AllReachable(start) == vertices \subseteq Reachable(start)

\* d lies on every path from start to v: without d, v cannot be reached.
OnEveryPath(start, d, v) == v \notin ReachFrom({start} \ {d}, d)

PathDominators(start, v) == {d \in vertices : OnEveryPath(start, d, v)}

Preds(b) == {p \in vertices : <<p, b>> \in EdgePairs}

\* b is in the dominance frontier of v: v dominates a predecessor of b and
\* does not strictly dominate b.
InFrontier(start, v, b) ==
    /\ \E p \in Preds(b) : OnEveryPath(start, v, p)
    /\ ~(v # b /\ OnEveryPath(start, v, b))

\* v lies on a cycle through another vertex.
OnCycle(v) == \E t \in vertices \ {v} : <<v, t>> \in EdgePairs /\ v \in ReachFrom({t}, NoVertex)

HasSelfLoopOrParallel ==
    \/ \E v \in vertices : <<v, v>> \in EdgePairs
    \/ \E e, f \in DOMAIN edges : e # f /\ edges[e] = edges[f]

-----------------------------------------------------------------------------
(* Properties *)

\* C1: on a graph whose vertices are all reachable from start, dominators
\* returns for every vertex v exactly the vertices that lie on every path
\* from start to v, cycles, self-loops and parallel edges included.
Thm_C1_DominatorsExact ==
    (call.fn = "dominators" /\ AllReachable(call.start)) =>
        /\ call.ok
        /\ DOMAIN call.ret = vertices
        /\ \A v \in vertices :
              call.ret[v] = SortedSeq(PathDominators(call.start, v))

Wit_C1_CycleAndJoin ==
    /\ call.fn = "dominators"
    /\ call.ok
    /\ AllReachable(call.start)
    /\ Cardinality(vertices) = 3
    /\ HasSelfLoopOrParallel
    /\ \E v \in vertices \ {call.start} :
          /\ OnCycle(v)
          /\ in_degree(v) >= 2
          /\ Range(call.ret[v]) = {call.start, v}

\* C2: on a graph whose vertices are all reachable from start,
\* immediate_dominator returns (no panic) a map with one entry per vertex,
\* whatever the order of the in-edge lists.
Cex_C2_IdomReturns ==
    (call.fn = "immediate_dominator" /\ AllReachable(call.start)) =>
        (call.ok /\ DOMAIN call.ret = vertices)

\* C3: a map returned by immediate_dominator on a graph whose vertices are
\* all reachable has Idom(start) = start and maps every other vertex to one
\* of its strict dominators as computed by dominators.
Thm_C3_IdomStrictDominator ==
    (call.fn = "immediate_dominator" /\ call.ok /\ AllReachable(call.start)) =>
        /\ call.ret[call.start] = call.start
        /\ \A order \in VertexOrders :
              LET Dom == dominators(call.start, Self, order).val
              IN \A v \in vertices \ {call.start} :
                    /\ call.ret[v] \in Range(Dom[v])
                    /\ call.ret[v] # v

Wit_C3_JoinNotIdomOfPred ==
    /\ call.fn = "immediate_dominator"
    /\ call.ok
    /\ AllReachable(call.start)
    /\ Cardinality(vertices) = 3
    /\ \E v \in vertices \ {call.start} :
          /\ in_degree(v) >= 2
          /\ \E p \in Preds(v) : p # v /\ p # call.ret[v]

\* C4: chain law: Dom(v) = Dom(Idom(v)) united with {v} for every vertex v
\* other than start, Dom from dominators and Idom from a returned
\* immediate_dominator map of the same graph and start.
Thm_C4_ChainLaw ==
    (call.fn = "immediate_dominator" /\ call.ok /\ AllReachable(call.start)) =>
        \A order \in VertexOrders :
            LET Dom == dominators(call.start, Self, order).val
            IN \A v \in vertices \ {call.start} :
                  Range(Dom[v]) = Range(Dom[call.ret[v]]) \cup {v}

Wit_C4_ChainOfThree ==
    /\ call.fn = "immediate_dominator"
    /\ call.ok
    /\ AllReachable(call.start)
    /\ \E v \in vertices \ {call.start} :
          /\ call.ret[v] # call.start
          /\ in_degree(v) >= 2

\* C5: immediate_dominator panics on every graph that has a vertex not
\* reachable from start.
Cex_C5_IdomAbortsOnUnreachable ==
    (call.fn = "immediate_dominator" /\ ~AllReachable(call.start)) => ~call.ok

\* C6: on a graph whose vertices are all reachable, dominance_frontiers of
\* the immediate-dominator map gives for every v exactly the vertices b such
\* that v dominates a predecessor of b and does not strictly dominate b.
Cex_C6_FrontierExact ==
    (call.fn = "dominance_frontiers" /\ AllReachable(call.start)) =>
        /\ call.ok
        /\ \A v \in vertices :
              Range(call.ret[v]) = {b \in vertices : InFrontier(call.start, v, b)}

\* C7: dominators returns for every vertex v reachable from start a set
\* that contains v and start, also when the graph has unreachable vertices.
Cex_C7_ReachableHasStart ==
    (call.fn = "dominators" /\ call.ok) =>
        \A v \in Reachable(call.start) :
            {v, call.start} \subseteq Range(call.ret[v])

Cex_C9_FrontierTolerates ==
    (call.fn = "dominance_frontiers"
        /\ DOMAIN call.idom = Reachable(call.start)) =>
        /\ call.ok
        /\ \A v \in vertices \ Reachable(call.start) : call.ret[v] = <<>>

\* The same graph with the order of every in-edge and out-edge list reversed.
ReversedLists(graph) ==
    [graph EXCEPT !.in_edges = [v \in DOMAIN @ |-> Reverse(@[v])],
                  !.out_edges = [v \in DOMAIN @ |-> Reverse(@[v])]]

\* C10: each of the three functions gives the same outcome (the same map or
\* the same failure) on the graph with its adjacency lists in another order
\* and for every enumeration order of the vertices.
Cex_C10_OrderIndependent ==
    /\ call.fn = "dominators" =>
          \A order \in VertexOrders :
              LET r == dominators(call.start, ReversedLists(Self), order)
              IN r.ok = call.ok /\ r.val = call.ret
    /\ call.fn = "immediate_dominator" =>
          LET r == immediate_dominator(call.start, ReversedLists(Self))
          IN r.ok = call.ok /\ r.val = call.ret
    /\ call.fn = "dominance_frontiers" =>
          \A order \in VertexOrders :
              LET r == dominance_frontiers(call.idom, ReversedLists(Self), order)
              IN r.ok = call.ok /\ r.val = call.ret

-----------------------------------------------------------------------------
(* Properties of the store *)

\* The edges recorded with source v / with target v.
EdgesFrom(v) == {e \in DOMAIN edges : edges[e][1] = v}
EdgesTo(v) == {e \in DOMAIN edges : edges[e][2] = v}

\* C11: every edge handle of the endpoint map has its source and its target
\* in the vertex-label map.
Cex_C11_EndpointsLabelled ==
    \A e \in DOMAIN edges :
        edges[e][1] \in DOMAIN vertex_labels /\ edges[e][2] \in DOMAIN vertex_labels

\* C12: for every labelled vertex the out-edge list holds exactly, each
\* once, the edges recorded with that source, and the in-edge list those
\* recorded with that target; the degrees are the edge counts.
Thm_C12_ListsAgreeWithEndpoints ==
    \A v \in DOMAIN vertex_labels :
        /\ v \in DOMAIN out_edges /\ v \in DOMAIN in_edges
        /\ Range(out_edges[v]) = EdgesFrom(v)
        /\ Range(in_edges[v]) = EdgesTo(v)
        /\ out_degree(v) = Cardinality(EdgesFrom(v))
        /\ in_degree(v) = Cardinality(EdgesTo(v))

Wit_C12_AfterSwapRemove ==
    /\ call.fn = "remove_edge"
    /\ call.ok
    /\ \E v \in DOMAIN vertex_labels :
          /\ out_degree(v) >= 2
          /\ out_edges[v][1] > out_edges[v][2]
          /\ \E e \in EdgesFrom(v) : edges[e][2] = v

\* C13: remove_vertex of a labelled handle returns the label and leaves the
\* handle without label, without adjacency lists and without incident edge
\* in the edge-label and endpoint maps.
Cex_C13_RemoveVertexRemoves ==
    [][\A v \in DOMAIN vertex_labels :
          RemoveVertex(v) =>
              /\ call'.ok
              /\ call'.ret = vertex_labels[v]
              /\ v \notin DOMAIN vertex_labels'
              /\ v \notin DOMAIN out_edges'
              /\ v \notin DOMAIN in_edges'
              /\ DOMAIN edge_labels' = DOMAIN edges'
              /\ \A e \in DOMAIN edges' : edges'[e][1] # v /\ edges'[e][2] # v]_vars

\* C14: remove_vertex removes exactly the edges incident on the vertex: the
\* other edges keep label, endpoints and their place in the lists of their
\* endpoints, and the degrees of every other vertex drop by the number of
\* edges it shared with the removed vertex.
Cex_C14_RemoveVertexFrame ==
    [][\A v \in DOMAIN vertex_labels :
          RemoveVertex(v) =>
              LET incident == EdgesFrom(v) \cup EdgesTo(v)
              IN /\ DOMAIN edges' = DOMAIN edges \ incident
                 /\ DOMAIN edge_labels' = DOMAIN edge_labels \ incident
                 /\ \A e \in DOMAIN edges' :
                       edges'[e] = edges[e] /\ edge_labels'[e] = edge_labels[e]
                 /\ \A u \in DOMAIN vertex_labels \ {v} :
                       /\ Range(out_edges'[u]) = Range(out_edges[u]) \ incident
                       /\ Range(in_edges'[u]) = Range(in_edges[u]) \ incident
                       /\ Len(in_edges'[u]) =
                             Len(in_edges[u]) - Cardinality(EdgesFrom(v) \cap EdgesTo(u))
                       /\ Len(out_edges'[u]) =
                             Len(out_edges[u]) - Cardinality(EdgesTo(v) \cap EdgesFrom(u))]_vars

StoreUnchanged ==
    UNCHANGED <<vertex_labels, edge_labels, out_edges, in_edges, edges,
                next_edge, next_vertex>>

\* C15: add_edge with an unlabelled endpoint, remove_vertex of an unlabelled
\* handle and remove_edge of an unlabelled handle change none of the maps
\* and counters and return None.
Thm_C15_UnknownHandleNoMutation ==
    [][/\ \A from, to \in 0..(MaxVertices - 1) :
             (AddEdge(from, to) /\ ~(from \in DOMAIN vertex_labels
                                        /\ to \in DOMAIN vertex_labels))
                 => (StoreUnchanged /\ ~call'.ok)
       /\ \A v \in (0..(MaxVertices - 1)) \ DOMAIN vertex_labels :
             RemoveVertex(v) => (StoreUnchanged /\ ~call'.ok)
       /\ \A e \in (0..(MaxEdges - 1)) \ DOMAIN edge_labels :
             RemoveEdge(e) => (StoreUnchanged /\ ~call'.ok)]_vars

Wit_C15_FailedOnPopulatedStore ==
    /\ call.fn \in {"add_edge", "remove_edge"}
    /\ ~call.ok
    /\ Cardinality(DOMAIN vertex_labels) >= 2
    /\ Cardinality(DOMAIN edges) >= 1
    /\ Cardinality(DOMAIN vertex_labels) < next_vertex

\* C16: the counters never decrease, every handle that gets a label is at
\* least the counter before the call and below the counter after it (so it
\* differs from every handle issued earlier, removed or not), and it is the
\* handle the call returns.
Thm_C16_HandlesFresh ==
    [][/\ next_vertex' >= next_vertex
       /\ next_edge' >= next_edge
       /\ \A h \in DOMAIN vertex_labels' \ DOMAIN vertex_labels :
             /\ h >= next_vertex /\ h < next_vertex'
             /\ call'.fn = "add_vertex" /\ call'.ok /\ call'.ret = h
       /\ \A h \in DOMAIN edge_labels' \ DOMAIN edge_labels :
             /\ h >= next_edge /\ h < next_edge'
             /\ call'.fn = "add_edge" /\ call'.ok /\ call'.ret = h
       /\ next_vertex' > next_vertex =>
             /\ call'.fn = "add_vertex" /\ call'.ret = next_vertex
             /\ next_vertex \in DOMAIN vertex_labels' \ DOMAIN vertex_labels
       /\ next_edge' > next_edge =>
             /\ call'.fn = "add_edge" /\ call'.ret = next_edge
             /\ next_edge \in DOMAIN edge_labels' \ DOMAIN edge_labels
       /\ \A h \in DOMAIN vertex_labels' : h < next_vertex'
       /\ \A h \in DOMAIN edge_labels' : h < next_edge']_vars

Wit_C16_AddAfterRemoval ==
    /\ call.fn = "add_vertex"
    /\ call.ok
    /\ call.ret > 0
    /\ \E h \in 0..(call.ret - 1) : h \notin DOMAIN vertex_labels
    /\ \E e \in 0..(next_edge - 1) : e \notin DOMAIN edge_labels

\* C17: adjacent_vertices of a labelled vertex yields each target of an
\* out-edge and each source of an in-edge once and nothing else, in an order
\* fixed by the handles (descending).
Thm_C17_AdjacentVertices ==
    (call.fn = "adjacent_vertices" /\ call.start \in DOMAIN vertex_labels) =>
        /\ call.ok
        /\ Range(call.ret) = {edges[e][2] : e \in EdgesFrom(call.start)}
                                \cup {edges[e][1] : e \in EdgesTo(call.start)}
        /\ \A i, j \in DOMAIN call.ret : i < j => call.ret[i] > call.ret[j]

Wit_C17_SelfLoopAndNeighbours ==
    /\ call.fn = "adjacent_vertices"
    /\ call.ok
    /\ call.start \in DOMAIN vertex_labels
    /\ Len(call.ret) = 3
    /\ call.start \in Range(call.ret)
    /\ in_edges[call.start][1] > in_edges[call.start][Len(in_edges[call.start])]

-----------------------------------------------------------------------------
(* Properties of the loops of the dominance engine *)

\* Number of elements held by all the sets of a vector of sets.
RECURSIVE DomSize(_, _)
DomSize(dom, i) ==
    IF i \notin DOMAIN dom THEN 0 ELSE Cardinality(dom[i]) + DomSize(dom, i + 1)

\* The set the data-flow equation gives the vertex of index i from the sets
\* cur of the previous pass: i itself and, for a vertex other than start,
\* what the sets of all sources of its in-edges have in common.
DomEquation(fr, cur, i) ==
    LET vx == fr.order[i + 1]
        srcs == {edges[e][1] : e \in Range(in_edges[vx])}
    IN {i} \cup (IF vx = fr.start \/ srcs = {} THEN {}
                 ELSE {x \in DOMAIN cur :
                         \A p \in srcs : x \in cur[Position(fr.order, p) - 1]})

\* What every statement of a run of dominators does: the body of a pass
\* writes one set of next_dom and leaves cur_dom alone; the set written for a
\* vertex is the one the equation gives from cur_dom, is a subset of the
\* vertex's set in cur_dom and contains the vertex; a pass that is not the
\* last one makes the sets strictly smaller in total; after the pass with
\* next_dom = cur_dom the call returns.
DominatorsStepLaw ==
    /\ (frame.pc = "dom_for" /\ frame.k <= Len(frame.order)) =>
          LET i == Position(frame.order, frame.order[frame.k]) - 1
          IN /\ frame'.pc = "dom_for"
             /\ frame'.k = frame.k + 1
             /\ frame'.cur_dom = frame.cur_dom
             /\ \A j \in DOMAIN frame.next_dom \ {i} :
                   frame'.next_dom[j] = frame.next_dom[j]
             /\ frame'.next_dom[i] = DomEquation(frame, frame.cur_dom, i)
             /\ frame'.next_dom[i] \subseteq frame.cur_dom[i]
             /\ i \in frame'.next_dom[i]
    /\ (frame.pc = "dom_for" /\ frame.k > Len(frame.order)) =>
          /\ frame'.pc = "dom_while"
          /\ frame'.cur_dom = frame.next_dom
          /\ frame'.fixpoint = (frame.next_dom = frame.cur_dom)
          /\ ~frame'.fixpoint =>
                DomSize(frame'.cur_dom, 0) < DomSize(frame.cur_dom, 0)
    /\ (frame.pc = "dom_while" /\ frame.fixpoint) =>
          /\ frame' = Idle
          /\ call'.fn = "dominators" /\ call'.ok
    /\ (frame.pc = "dom_while" /\ ~frame.fixpoint) => frame'.pc = "dom_for"

\* C18: every call of dominators that was started returns, and each of its
\* statements obeys DominatorsStepLaw: from pass to pass no set gains an
\* element, each set contains its vertex, next_dom is computed from cur_dom
\* alone.
Thm_C18_DominatorsLoop ==
    /\ (frame.pc \in {"dom_while", "dom_for"}) ~> (frame = Idle /\ call.fn = "dominators")
    /\ [][DominatorsStepLaw]_vars

\* A run on a cycle below start has made a pass that shrank a set and then
\* the pass that changed nothing.
Wit_C18_FixpointAfterShrinking ==
    /\ frame.pc = "dom_while"
    /\ frame.fixpoint
    /\ Len(frame.order) = 3
    /\ \E v \in vertices \ {frame.start} : OnCycle(v)
    /\ \E i \in DOMAIN frame.cur_dom : Cardinality(frame.cur_dom[i]) = 2

\* C19: while immediate_dominator runs, the candidate new_idom of the vertex
\* being processed is a vertex with an entry in the idom map ret, and in
\* every intersect call the vertices under both fingers have an entry in
\* ret.
Cex_C19_CandidateHasEntry ==
    /\ (frame.pc \in {"idom_for_e", "intersect"} /\ frame.new_idom # NoVertex) =>
          frame.new_idom \in DOMAIN frame.ret
    /\ frame.pc = "intersect" =>
          /\ frame.rev_postorder[frame.f1 + 1] \in DOMAIN frame.ret
          /\ frame.rev_postorder[frame.f2 + 1] \in DOMAIN frame.ret

\* C20: on a graph whose vertices are all reachable from start, every
\* statement of a running intersect call either moves a finger or returns
\* with both fingers on the same RPO index, and every statement of the
\* outer loop continues the call or returns the map.
Cex_C20_IdomLoopConverges ==
    [][(frame.pc \in {"idom_while", "idom_for_b", "idom_for_e", "intersect"}
            /\ AllReachable(frame.start)) =>
          /\ frame' = Idle => (call'.ok /\ frame.pc = "idom_while" /\ frame.fixpoint)
          /\ frame.pc = "intersect" =>
                \/ frame'.pc = "intersect"
                \/ frame'.pc = "idom_for_e" /\ frame.f1 = frame.f2
      ]_vars

\* The walk up the tree idom from p: p, idom[p], idom[idom[p]], ... until a
\* vertex that is its own idom or has none, at most n vertices.
RECURSIVE IdomChain(_, _, _)
IdomChain(idom, p, n) ==
    IF n = 0 THEN <<>>
    ELSE IF p \notin DOMAIN idom \/ idom[p] = p THEN <<p>>
    ELSE <<p>> \o IdomChain(idom, idom[p], n - 1)

\* Where a runner walk of dominance_frontiers stands, on a graph whose
\* vertices are all reachable: idom[b] is on the walk up from the
\* predecessor p, the runner is on it at or before idom[b], a runner that
\* has not reached idom[b] is not start, and b is in the vector of every
\* vertex of the walk before the runner.
DfWalkOnChain ==
    (frame.pc = "df_while" /\ AllReachable(frame.start)) =>
        LET b == frame.order[frame.k]
            p == edges[in_edges[b][frame.i]][1]
            chain == IdomChain(frame.idom, p, Cardinality(vertices))
            stop == Position(chain, frame.idom[b])
            at == Position(chain, frame.runner)
        IN /\ in_degree(b) >= 2
           /\ stop # 0 /\ at # 0 /\ at <= stop
           /\ at < stop => frame.runner # frame.start
           /\ \A j \in 1..(at - 1) : b \in Range(frame.ret[chain[j]])

\* What a statement of a runner walk does on such a graph: before idom[b]
\* it pushes b to the vector of the runner, changes no other vector and
\* moves the runner to its idom; at idom[b] it changes no vector and ends
\* the walk.
DfWalkStepLaw ==
    (frame.pc = "df_while" /\ AllReachable(frame.start)) =>
        LET b == frame.order[frame.k]
            runner == frame.runner
        IN IF runner = frame.idom[b]
           THEN /\ frame'.pc = "df_for_e"
                /\ frame'.ret = frame.ret
           ELSE /\ frame'.pc = "df_while"
                /\ frame'.runner = frame.idom[runner]
                /\ frame'.ret[runner] = Append(frame.ret[runner], b)
                /\ \A v \in DOMAIN frame.ret \ {runner} : frame'.ret[v] = frame.ret[v]

\* C21: in dominance_frontiers called with the map of immediate_dominator on
\* a graph whose vertices are all reachable from start, every runner walk
\* stands on the walk up from p at or before idom[b] (DfWalkOnChain), each of
\* its statements obeys DfWalkStepLaw, and every walk that was started ends.
Thm_C21_RunnerWalk ==
    /\ [](DfWalkOnChain)
    /\ [][DfWalkStepLaw]_vars
    /\ (frame.pc = "df_while" /\ AllReachable(frame.start)) ~> (frame.pc # "df_while")

\* A walk of two pushes has ended at idom[b] = start: b is in the vectors of
\* its predecessor and of that vertex's idom, and not in the one of start.
Wit_C21_WalkOfTwo ==
    /\ frame.pc = "df_for_e"
    /\ frame.i >= 2
    /\ AllReachable(frame.start)
    /\ LET b == frame.order[frame.k]
           p == edges[in_edges[b][frame.i - 1]][1]
       IN /\ p # b
          /\ frame.idom[p] # frame.idom[b]
          /\ b \in Range(frame.ret[p])
          /\ b \in Range(frame.ret[frame.idom[p]])
          /\ b \notin Range(frame.ret[frame.idom[b]])

-----------------------------------------------------------------------------
(* Properties of the statements of the store operations *)

\* C22: in every state inside a running remove_vertex, and in every state a
\* call of remove_vertex has returned to, both endpoints of every edge of
\* the endpoint map have a label.
Cex_C22_EdgesBeforeLabel ==
    (frame.pc \in {"rv_todel1", "rv_todel2", "rv_lists"}
        \/ (frame = Idle /\ call.fn = "remove_vertex")) =>
        \A e \in DOMAIN edges :
            source(e) \in DOMAIN vertex_labels /\ target(e) \in DOMAIN vertex_labels

\* C23: a call add_edge(label, from, to) with both endpoints labelled returns
\* Some(e) with e the edge counter's value, a handle no map or list holds;
\* e gets the label and the pair (from, to), is appended to the out-edge
\* list of from and the in-edge list of to, whose lengths grow by one; every
\* other label, endpoint record and adjacency list and all vertex labels stay
\* as they were.
Thm_C23_AddEdgeFrame ==
    [][\A from, to \in 0..(MaxVertices - 1) :
          (AddEdge(from, to) /\ from \in DOMAIN vertex_labels
                             /\ to \in DOMAIN vertex_labels) =>
             LET e == call'.ret
             IN /\ call'.fn = "add_edge" /\ call'.ok
                /\ e = next_edge /\ next_edge' = e + 1
                /\ e \notin DOMAIN edge_labels \cup DOMAIN edges
                /\ \A v \in DOMAIN out_edges : e \notin Range(out_edges[v])
                /\ \A v \in DOMAIN in_edges : e \notin Range(in_edges[v])
                /\ DOMAIN edge_labels' = DOMAIN edge_labels \cup {e}
                /\ edge_labels'[e] = Label
                /\ \A f \in DOMAIN edge_labels : edge_labels'[f] = edge_labels[f]
                /\ DOMAIN edges' = DOMAIN edges \cup {e}
                /\ edges'[e] = <<from, to>>
                /\ \A f \in DOMAIN edges : edges'[f] = edges[f]
                /\ DOMAIN out_edges' = DOMAIN out_edges
                /\ DOMAIN in_edges' = DOMAIN in_edges
                /\ out_edges'[from] = Append(out_edges[from], e)
                /\ in_edges'[to] = Append(in_edges[to], e)
                /\ Len(out_edges'[from]) = out_degree(from) + 1
                /\ Len(in_edges'[to]) = in_degree(to) + 1
                /\ \A v \in DOMAIN out_edges \ {from} : out_edges'[v] = out_edges[v]
                /\ \A v \in DOMAIN in_edges \ {to} : in_edges'[v] = in_edges[v]
                /\ vertex_labels' = vertex_labels
                /\ next_vertex' = next_vertex
      ]_vars

\* The call just made added a self-loop parallel to an existing self-loop,
\* on a store an edge was removed from before.
Wit_C23_ParallelSelfLoop ==
    /\ call.fn = "add_edge"
    /\ call.ok
    /\ source(call.ret) = target(call.ret)
    /\ \E f \in DOMAIN edges : f # call.ret /\ edges[f] = edges[call.ret]
    /\ Cardinality(DOMAIN edges) < next_edge

\* C24: a call remove_edge(e) of a labelled edge returns its label; e has no
\* label and no endpoint record afterwards and is in no adjacency list; every
\* list holds the other edges it held before; the out-edge list of e's
\* source and the in-edge list of e's target are one shorter, every other
\* list keeps its length; the other labels and records, the vertex labels
\* and the counters stay as they were.
Thm_C24_RemoveEdgeFrame ==
    [][\A e \in 0..(MaxEdges - 1) :
          (RemoveEdge(e) /\ e \in DOMAIN edge_labels) =>
             /\ call'.fn = "remove_edge" /\ call'.ok
             /\ call'.ret = edge_labels[e]
             /\ DOMAIN edge_labels' = DOMAIN edge_labels \ {e}
             /\ \A f \in DOMAIN edge_labels' : edge_labels'[f] = edge_labels[f]
             /\ DOMAIN edges' = DOMAIN edges \ {e}
             /\ \A f \in DOMAIN edges' : edges'[f] = edges[f]
             /\ DOMAIN out_edges' = DOMAIN out_edges
             /\ DOMAIN in_edges' = DOMAIN in_edges
             /\ \A v \in DOMAIN out_edges :
                   /\ Range(out_edges'[v]) = Range(out_edges[v]) \ {e}
                   /\ Len(out_edges'[v]) =
                         Len(out_edges[v]) - (IF v = source(e) THEN 1 ELSE 0)
             /\ \A v \in DOMAIN in_edges :
                   /\ Range(in_edges'[v]) = Range(in_edges[v]) \ {e}
                   /\ Len(in_edges'[v]) =
                         Len(in_edges[v]) - (IF v = target(e) THEN 1 ELSE 0)
             /\ vertex_labels' = vertex_labels
             /\ next_edge' = next_edge /\ next_vertex' = next_vertex
      ]_vars

\* The call just made removed an edge and a self-loop is left on a vertex
\* that has two more edges: a list was reordered by the removal.
Wit_C24_RemovedAmongOthers ==
    /\ call.fn = "remove_edge"
    /\ call.ok
    /\ \E v \in vertices :
          /\ out_degree(v) >= 2
          /\ \E k \in 1..(Len(out_edges[v]) - 1) : out_edges[v][k] > out_edges[v][k + 1]
          /\ <<v, v>> \in EdgePairs

====
